---- MODULE Spec2Model ----
(***************************************************************************)
(* A model of astroplan.plots.sky.plot_sky (src/astroplan/plots/sky.py).   *)
(*                                                                         *)
(* One call of plot_sky is a straight-line walk through the function body; *)
(* pc names the statement group the call is about to execute.  The polar   *)
(* axes (ax) is the only object that outlives a call.  The observer, the   *)
(* matplotlib axes and the warnings module are collaborators: the model    *)
(* records what plot_sky asks of them.                                     *)
(*                                                                         *)
(* Angles are whole degrees; azimuth in radians is kept in milliradians.   *)
(* A float that is not a number is the value NaN, for which every ordered  *)
(* comparison is false.                                                    *)
(***************************************************************************)
EXTENDS Integers, Sequences, FiniteSets, TLC

(* ------------------------------ bounds -------------------------------- *)

\* longest time array handed to plot_sky
MaxSamples == 2

\* number of plot_sky calls on one axes (SpecOverlay)
MaxCalls == 3

(* ------------------------- values and inputs -------------------------- *)

\* the float "not a number", as an altitude the observer may report
NaN == 1000000

\* altitudes (degrees) a target may have at a time instant
Altitudes == {-10, 0, 45, NaN}

\* azimuth (degrees) of the target at time instant t: distinct per instant
AzimuthAt(t) == (75 * t) % 360

\* az_label_offset values (degrees)
Offsets == {-45, 0, 360, 400}

\* targets: with or without a name attribute
Targets == {[has_name |-> FALSE, name |-> ""], [has_name |-> TRUE, name |-> "Vega"]}

\* a Python dict with string keys, as a function; {} is the empty function
EmptyDict == [k \in {} |-> ""]

\* style_kwargs arguments: None or a dict of the caller
StyleArgs ==
    { [is_none |-> TRUE, d |-> EmptyDict],
      [is_none |-> FALSE, d |-> [marker |-> "x", color |-> "r"]],
      [is_none |-> FALSE, d |-> [label |-> "mine"]] }

\* astropy Time objects: shape <<>> is a scalar, shape <<n>> an array of n instants
ScalarTime(t) == [shape |-> <<>>, jd |-> <<t>>]
ArrayTime(n) == [shape |-> <<n>>, jd |-> [i \in 1..n |-> i]]
TimeArgs == {ScalarTime(1)} \cup {ArrayTime(n) : n \in 0..MaxSamples}

\* positions of the target: altitude at each instant of time argument tm
Skies(tm) == [1..Len(tm.jd) -> Altitudes]

\* observer.altaz outcome: 0 works, k raises on its k-th invocation of a call
ObserverFails == {0, 1, 2}

VARIABLES
    pc,                \* statement group plot_sky is at; "idle" outside a call
    exc,               \* exception that ended the call, "none" otherwise
    \* --- arguments and environment of the current call
    target, sky, observer_fails, time_arg, style_arg,
    north_to_east_ccw, grid, az_label_offset,
    \* --- locals of plot_sky
    heap,              \* the dict objects: caller's, the {} literal, the dict() copy
    style_kwargs,      \* reference into heap
    time, altitude, azimuth, target_name,
    az_plot, alt_plot, alt, theta_labels,
    \* --- collaborators
    ax,                \* the polar axes
    ax0,               \* the axes as it was when the call began
    ops,               \* operations this call applied to ax, in order
    warned,            \* warnings.warn calls of this call
    altaz_log,         \* observer.altaz invocations of this call
    \* --- bookkeeping of the multi-call specifications
    calls,             \* calls begun on this axes (SpecOverlay)
    phase,             \* 0, then 1 (scalar call) and 2 (sequence call) (SpecEq)
    first              \* outcome of the scalar call (SpecEq)

args == <<target, sky, observer_fails, time_arg, style_arg,
          north_to_east_ccw, grid, az_label_offset>>
locals == <<heap, style_kwargs, time, altitude, azimuth, target_name,
            az_plot, alt_plot, alt, theta_labels>>
collab == <<ax, ax0, ops, warned, altaz_log>>
book == <<calls, phase, first>>
vars == <<pc, exc, args, locals, collab, book>>

(* ----------------------------- the axes ------------------------------- *)

\* a polar axes as matplotlib creates it
NewPolarAxes ==
    [ theta_zero_location |-> "E",
      theta_direction |-> 1,
      collections |-> <<>>,
      rlim |-> <<0, 1>>,
      grid |-> TRUE,
      rgrids |-> [radii |-> <<>>, labels |-> <<>>],
      thetagrids |-> [angles |-> <<>>, labels |-> <<>>],
      draws |-> 0 ]

(* --------------------------- float helpers ---------------------------- *)

\* a > b on floats
GT(a, b) == a # NaN /\ b # NaN /\ a > b

\* a <= b on floats
LE(a, b) == a # NaN /\ b # NaN /\ a <= b

\* (91 deg - alt) * (1/deg)
Radius(a) == IF a = NaN THEN NaN ELSE 91 - a

\* az * (1/deg) * (pi/180), in milliradians
Radians(az) == (az * 174533) \div 10000

(* ------------------------------ dicts --------------------------------- *)

Put(d, k, v) == [x \in (DOMAIN d) \cup {k} |-> IF x = k THEN v ELSE d[x]]

\* dict(ref) gone wrong: no copy is made, the caller's dict itself is used
dict_alias(h, ref) == [heap |-> h, ref |-> ref]

\* dict(ref): a new dict object holding the entries of heap[ref]
dict(h, ref) == [heap |-> [h EXCEPT !["copy"] = h[ref]], ref |-> "copy"]

\* heap[ref].setdefault(k, v)
setdefault(h, ref, k, v) ==
    IF k \in DOMAIN h[ref] THEN h ELSE [h EXCEPT ![ref] = Put(h[ref], k, v)]

(* ------------------------------ time ---------------------------------- *)

\* the wrapping of a scalar gone wrong: a scalar Time stays a scalar
AsTimeArray_unwrapped(t) == t

\* Time(time); if time.isscalar: time = Time([time])
AsTimeArray(t) == IF t.shape = <<>> THEN [shape |-> <<1>>, jd |-> t.jd] ELSE t

(* ----------------------------- observer ------------------------------- *)

\* observer.altaz(time, target): one (alt, az) per instant of tm
altaz(tm) ==
    [shape |-> tm.shape,
     v |-> [i \in 1..Len(tm.jd) |-> [alt |-> sky[tm.jd[i]], az |-> AzimuthAt(tm.jd[i])]]]

Last(q) == q[Len(q)]

\* one invocation of observer.altaz(tm, target), added to the log: it raises when
\* it is the invocation the observer fails on, and returns the positions otherwise
Invoke(log, tm) ==
    Append(log, IF observer_fails = Len(log) + 1
                THEN [time |-> tm, raised |-> TRUE, result |-> [shape |-> <<0>>, v |-> <<>>]]
                ELSE [time |-> tm, raised |-> FALSE, result |-> altaz(tm)])

(* ------------------------ plot_sky, step by step ---------------------- *)

Finished == {"idle", "returned", "raised"}

\* the call raises e: nothing after it runs
Raise(e) == /\ pc' = "raised"
            /\ exc' = e

\* Entry of plot_sky on axes `surface` (ax given, or plt.gca(projection='polar')),
\* up to the normalisation of time: lines 98-109.
plot_sky(surface, tgt, positions, fails, tm, style, ccw, g, offset) ==
    /\ target' = tgt
    /\ sky' = positions
    /\ observer_fails' = fails
    /\ time_arg' = tm
    /\ style_arg' = style
    /\ north_to_east_ccw' = ccw
    /\ grid' = g
    /\ az_label_offset' = offset
    /\ ax' = surface
    /\ ax0' = surface
    /\ LET h0 == [caller |-> style.d, literal |-> EmptyDict, copy |-> EmptyDict]
           c == dict(h0, IF style.is_none THEN "literal" ELSE "caller")
       IN /\ heap' = setdefault(c.heap, c.ref, "marker", "o")
          /\ style_kwargs' = c.ref
    /\ time' = AsTimeArray(tm)
    /\ altitude' = [shape |-> <<0>>, v |-> <<>>]
    /\ azimuth' = [shape |-> <<0>>, v |-> <<>>]
    /\ target_name' = ""
    /\ az_plot' = [is_none |-> TRUE, arr |-> <<>>]
    /\ alt_plot' = <<>>
    /\ alt' = 0
    /\ theta_labels' = <<>>
    /\ ops' = <<>>
    /\ warned' = <<>>
    /\ altaz_log' = <<>>
    /\ exc' = "none"
    /\ pc' = "altitude"

\* line 114 gone wrong: the axes is configured before the observer is asked
Altitude_draws_first ==
    /\ pc = "altitude"
    /\ altaz_log' = Invoke(altaz_log, time)
    /\ ax' = [ax EXCEPT !.theta_zero_location = "N"]
    /\ ops' = Append(ops, "set_theta_zero_location")
    /\ IF Last(altaz_log').raised
       THEN /\ Raise("altaz")
            /\ UNCHANGED altitude
       ELSE /\ altitude' = [shape |-> Last(altaz_log').result.shape,
                            v |-> [i \in 1..Len(Last(altaz_log').result.v) |->
                                      Radius(Last(altaz_log').result.v[i].alt)]]
            /\ pc' = "azimuth"
            /\ UNCHANGED exc
    /\ UNCHANGED <<args, heap, style_kwargs, time, azimuth, target_name,
                   az_plot, alt_plot, alt, theta_labels, ax0, warned, book>>

\* altitude = (91 * u.deg - observer.altaz(time, target).alt) * (1/u.deg): line 114
Altitude ==
    /\ pc = "altitude"
    /\ altaz_log' = Invoke(altaz_log, time)
    /\ IF Last(altaz_log').raised
       THEN /\ Raise("altaz")
            /\ UNCHANGED altitude
       ELSE /\ altitude' = [shape |-> Last(altaz_log').result.shape,
                            v |-> [i \in 1..Len(Last(altaz_log').result.v) |->
                                      Radius(Last(altaz_log').result.v[i].alt)]]
            /\ pc' = "azimuth"
            /\ UNCHANGED exc
    /\ UNCHANGED <<args, heap, style_kwargs, time, azimuth, target_name,
                   az_plot, alt_plot, alt, theta_labels, ax, ax0, ops, warned, book>>

\* line 116 gone wrong: the azimuth is read from the result of the first
\* invocation, the observer is not asked again
Azimuth_reuses_first ==
    /\ pc = "azimuth"
    /\ azimuth' = [shape |-> altaz_log[1].result.shape,
                   v |-> [i \in 1..Len(altaz_log[1].result.v) |->
                             Radians(altaz_log[1].result.v[i].az)]]
    /\ pc' = "label"
    /\ UNCHANGED <<exc, args, heap, style_kwargs, time, altitude, target_name,
                   az_plot, alt_plot, alt, theta_labels, collab, book>>

\* azimuth = observer.altaz(time, target).az * (1/u.deg) * (np.pi/180.0): line 116
Azimuth ==
    /\ pc = "azimuth"
    /\ altaz_log' = Invoke(altaz_log, time)
    /\ IF Last(altaz_log').raised
       THEN /\ Raise("altaz")
            /\ UNCHANGED azimuth
       ELSE /\ azimuth' = [shape |-> Last(altaz_log').result.shape,
                           v |-> [i \in 1..Len(Last(altaz_log').result.v) |->
                                     Radians(Last(altaz_log').result.v[i].az)]]
            /\ pc' = "label"
            /\ UNCHANGED exc
    /\ UNCHANGED <<args, heap, style_kwargs, time, altitude, target_name,
                   az_plot, alt_plot, alt, theta_labels, ax, ax0, ops, warned, book>>

\* target_name and the 'label' default, az_plot = None, and the loop header
\* range(0, len(altitude)): lines 118-127
TargetName ==
    /\ pc = "label"
    /\ target_name' = IF target.has_name THEN target.name ELSE ""
    /\ heap' = setdefault(heap, style_kwargs, "label", target_name')
    /\ az_plot' = [is_none |-> TRUE, arr |-> <<>>]
    /\ alt' = 0
    /\ IF altitude.shape = <<>>
       THEN Raise("len")      \* len() of an unsized object
       ELSE pc' = "loop" /\ UNCHANGED exc
    /\ UNCHANGED <<args, style_kwargs, time, altitude, azimuth,
                   alt_plot, theta_labels, collab, book>>

\* the message of the below-horizon warning for sample i: lines 129-132
WarningFor(i) ==
    [target |-> IF target_name # "" THEN target_name ELSE "Unknown Name",
     time |-> time.jd[i]]

\* the horizon test gone wrong: >= in place of >
BelowHorizon_inclusive(r) == r # NaN /\ r >= 91

\* if altitude[alt] > 91.0: line 128
BelowHorizon(r) == GT(r, 91)

\* one iteration of the loop over the samples: lines 127-137
\* (alt counts the iterations done; the sample at hand is alt + 1)
LoopBody ==
    /\ pc = "loop"
    /\ alt < Len(altitude.v)
    /\ IF BelowHorizon(altitude.v[alt + 1])
       THEN /\ warned' = Append(warned, WarningFor(alt + 1))
            /\ UNCHANGED az_plot
       ELSE /\ az_plot' = [is_none |-> FALSE, arr |-> Append(az_plot.arr, azimuth.v[alt + 1])]
            /\ UNCHANGED warned
    /\ alt' = alt + 1
    /\ UNCHANGED <<pc, exc, args, heap, style_kwargs, time, altitude, azimuth,
                   target_name, alt_plot, theta_labels, ax, ax0, ops, altaz_log, book>>

\* altitude[altitude <= 91.0]: line 138
Mask(a) == SelectSeq(a, LAMBDA r : LE(r, 91))

\* after the loop: alt_plot by the mask, az_plot = [] if still None: lines 138-140
AfterLoop ==
    /\ pc = "loop"
    /\ alt = Len(altitude.v)
    /\ alt_plot' = Mask(altitude.v)
    /\ az_plot' = [is_none |-> FALSE, arr |-> az_plot.arr]
    /\ pc' = "axes"
    /\ UNCHANGED <<exc, args, heap, style_kwargs, time, altitude, azimuth,
                   target_name, alt, theta_labels, collab, book>>

\* ax.set_theta_zero_location('N'); set_theta_direction(-1) if
\* north_to_east_ccw is False: lines 142-148
ThetaDirection(a) ==
    IF north_to_east_ccw = FALSE THEN [a EXCEPT !.theta_direction = -1] ELSE a

AxesSetUp ==
    /\ pc = "axes"
    /\ ax' = ThetaDirection([ax EXCEPT !.theta_zero_location = "N"])
    /\ ops' = ops \o (IF north_to_east_ccw = FALSE
                      THEN <<"set_theta_zero_location", "set_theta_direction">>
                      ELSE <<"set_theta_zero_location">>)
    /\ pc' = "scatter"
    /\ UNCHANGED <<exc, args, locals, ax0, warned, altaz_log, book>>

\* ax.scatter(az_plot, alt_plot, **style_kwargs): line 151
\* (matplotlib raises ValueError when x and y differ in size)
Scatter ==
    /\ pc = "scatter"
    /\ IF Len(az_plot.arr) # Len(alt_plot)
       THEN /\ Raise("scatter")
            /\ UNCHANGED <<ax, ops>>
       ELSE /\ ax' = [ax EXCEPT !.collections =
                         Append(@, [x |-> az_plot.arr, y |-> alt_plot,
                                    kwargs |-> heap[style_kwargs]])]
            /\ ops' = Append(ops, "scatter")
            /\ pc' = "rlim"
            /\ UNCHANGED exc
    /\ UNCHANGED <<args, locals, ax0, warned, altaz_log, book>>

\* ax.set_rlim(1, 91) and the grid switch: lines 153-161
RlimGrid ==
    /\ pc = "rlim"
    /\ ax' = [ax EXCEPT !.rlim = <<1, 91>>, !.grid = grid]
    /\ ops' = ops \o <<"set_rlim", "grid">>
    /\ pc' = "ticks"
    /\ UNCHANGED <<exc, args, locals, ax0, warned, altaz_log, book>>

\* Python's range(lo, hi, step), step > 0
Range(lo, hi, step) == [i \in 1..((hi - lo + step - 1) \div step) |-> lo + (i - 1) * step]

\* while label_angle >= 360.0: label_angle -= 360.0: lines 179-180
RECURSIVE WrapAngle(_)
WrapAngle(a) == IF a >= 360 THEN WrapAngle(a - 360) ELSE a

\* the label of one chunk: lines 178-191
ThetaLabel(chunk, offset) ==
    [compass |-> CASE chunk = 0 -> "N"
                   [] chunk = 2 -> "E"
                   [] chunk = 4 -> "S"
                   [] chunk = 6 -> "W"
                   [] OTHER -> "",
     angle |-> WrapAngle(offset + chunk * 45)]

\* the chunks the label loop visits: line 177
Chunks == Range(0, 7, 1)

\* theta_labels after the loop: lines 176-191
ThetaLabels(offset) == [i \in 1..Len(Chunks) |-> ThetaLabel(Chunks[i], offset)]

\* r_labels: lines 166-174
r_labels == <<"90", "", "60", "", "30", "", "0 Alt.">>

\* the tick labels and ax.set_rgrids, ax.set_thetagrids: lines 162-195
TickLabels ==
    /\ pc = "ticks"
    /\ theta_labels' = ThetaLabels(az_label_offset)
    /\ ax' = [ax EXCEPT !.rgrids = [radii |-> Range(1, 106, 15), labels |-> r_labels],
                        !.thetagrids = [angles |-> Range(0, 360, 45),
                                        labels |-> theta_labels']]
    /\ ops' = ops \o <<"set_rgrids", "set_thetagrids">>
    /\ pc' = "draw"
    /\ UNCHANGED <<exc, args, heap, style_kwargs, time, altitude, azimuth, target_name,
                   az_plot, alt_plot, alt, ax0, warned, altaz_log, book>>

\* ax.figure.canvas.draw(); return ax: lines 201-204
Draw ==
    /\ pc = "draw"
    /\ ax' = [ax EXCEPT !.draws = @ + 1]
    /\ ops' = Append(ops, "draw")
    /\ pc' = "returned"
    /\ UNCHANGED <<exc, args, locals, ax0, warned, altaz_log, book>>

\* the steps of a call after its entry
Step == \/ Altitude
        \/ Azimuth
        \/ TargetName
        \/ LoopBody
        \/ AfterLoop
        \/ AxesSetUp
        \/ Scatter
        \/ RlimGrid
        \/ TickLabels
        \/ Draw

(* --------------------------- specifications --------------------------- *)

Init ==
    /\ pc = "idle"
    /\ exc = "none"
    /\ target = [has_name |-> FALSE, name |-> ""]
    /\ sky = <<>>
    /\ observer_fails = 0
    /\ time_arg = ArrayTime(0)
    /\ style_arg = [is_none |-> TRUE, d |-> EmptyDict]
    /\ north_to_east_ccw = TRUE
    /\ grid = TRUE
    /\ az_label_offset = 0
    /\ heap = [caller |-> EmptyDict, literal |-> EmptyDict, copy |-> EmptyDict]
    /\ style_kwargs = "literal"
    /\ time = ArrayTime(0)
    /\ altitude = [shape |-> <<0>>, v |-> <<>>]
    /\ azimuth = [shape |-> <<0>>, v |-> <<>>]
    /\ target_name = ""
    /\ az_plot = [is_none |-> TRUE, arr |-> <<>>]
    /\ alt_plot = <<>>
    /\ alt = 0
    /\ theta_labels = <<>>
    /\ ax = NewPolarAxes
    /\ ax0 = NewPolarAxes
    /\ ops = <<>>
    /\ warned = <<>>
    /\ altaz_log = <<>>
    /\ calls = 0
    /\ phase = 0
    /\ first = [pc |-> "idle", exc |-> "none", ax |-> NewPolarAxes,
                ops |-> <<>>, warned |-> <<>>]

\* A call of plot_sky with any arguments, on the polar axes of a new figure.
Call ==
    /\ pc = "idle"
    /\ \E tgt \in Targets, tm \in TimeArgs, fails \in ObserverFails, style \in StyleArgs,
       ccw \in BOOLEAN, g \in BOOLEAN, offset \in Offsets :
        \E positions \in Skies(tm) :
            plot_sky(NewPolarAxes, tgt, positions, fails, tm, style, ccw, g, offset)
    /\ UNCHANGED book

Next == Call \/ Step

Spec == Init /\ [][Next]_vars

\* Repeated calls that overlay targets on one axes: each call is handed the axes
\* the previous one returned; the optional arguments other than north_to_east_ccw
\* keep their defaults.
OverlayCall ==
    /\ pc \in Finished
    /\ calls < MaxCalls
    /\ \E positions \in Skies(ScalarTime(1)), fails \in ObserverFails, ccw \in BOOLEAN :
           plot_sky(ax, [has_name |-> TRUE, name |-> "Vega"], positions, fails,
                    ScalarTime(1), [is_none |-> TRUE, d |-> EmptyDict], ccw, TRUE, 0)
    /\ calls' = calls + 1
    /\ UNCHANGED <<phase, first>>

NextOverlay == OverlayCall \/ Step

SpecOverlay == Init /\ [][NextOverlay]_vars

\* Two calls on the axes of two new figures: the first with a scalar time, the
\* second with the one-element array of the same instant and every other
\* argument, the target's positions and the observer unchanged.
ScalarCall ==
    /\ pc = "idle"
    /\ phase = 0
    /\ \E tgt \in Targets, fails \in ObserverFails, style \in StyleArgs,
          ccw \in BOOLEAN, g \in BOOLEAN, offset \in Offsets :
           \E positions \in Skies(ScalarTime(1)) :
               plot_sky(NewPolarAxes, tgt, positions, fails, ScalarTime(1),
                        style, ccw, g, offset)
    /\ phase' = 1
    /\ UNCHANGED <<calls, first>>

SequenceCall ==
    /\ phase = 1
    /\ pc \in {"returned", "raised"}
    /\ first' = [pc |-> pc, exc |-> exc, ax |-> ax, ops |-> ops, warned |-> warned]
    /\ plot_sky(NewPolarAxes, target, sky, observer_fails, ArrayTime(1),
                style_arg, north_to_east_ccw, grid, az_label_offset)
    /\ phase' = 2
    /\ UNCHANGED calls

NextEq == ScalarCall \/ SequenceCall \/ Step

SpecEq == Init /\ [][NextEq]_vars

(* ------------------------------ claims -------------------------------- *)

\* the call is over and the observer gave the positions
Over == pc \in {"returned", "raised"} /\ exc # "altaz"

\* number of time samples of the call
NSamples == Len(time.jd)

\* altitude (degrees) of sample i
AltOf(i) == sky[time.jd[i]]

\* the point of sample i as scatter should receive it
PointOf(i) == <<Radians(AzimuthAt(time.jd[i])), 91 - AltOf(i)>>

\* the (angle, radius) pairs the call passed to scatter
Plotted ==
    LET c == Last(ax.collections)
    IN {<<c.x[k], c.y[k]>> : k \in 1..Len(c.x)}

\* C1: every sample with altitude below 0 contributes no plotted point and
\* causes exactly one warning naming its time instant; the call does not raise,
\* and the other samples are plotted.
C1_BelowHorizonSkipped ==
    (Over /\ \E i \in 1..NSamples : AltOf(i) < 0) =>
        /\ pc = "returned"
        /\ \A i \in 1..NSamples :
            IF AltOf(i) < 0
            THEN /\ PointOf(i) \notin Plotted
                 /\ Cardinality({k \in 1..Len(warned) : warned[k].time = time.jd[i]}) = 1
            ELSE PointOf(i) \in Plotted

\* every sample of the call is at or above the horizon
AllVisible == \A i \in 1..NSamples : AltOf(i) # NaN /\ AltOf(i) >= 0

\* C2: when every sample has altitude >= 0 (0 included), scatter receives as
\* many points as there are time samples and no warning is emitted.
C2_AllVisiblePlotted ==
    (Over /\ AllVisible) =>
        /\ pc = "returned"
        /\ Len(Last(ax.collections).x) = NSamples
        /\ Len(Last(ax.collections).y) = NSamples
        /\ warned = <<>>

C2_Witness ==
    /\ pc = "returned"
    /\ NSamples = 2
    /\ AllVisible
    /\ \E i \in 1..NSamples : AltOf(i) = 0

\* the tick labels have been handed to the axes
Labelled == pc \in {"draw", "returned"}

\* C3: for any az_label_offset, every azimuth angle computed for the angular
\* tick labels lies in [0, 360).
C3_LabelAnglesNormalized ==
    Labelled => \A i \in 1..Len(theta_labels) :
                    theta_labels[i].angle >= 0 /\ theta_labels[i].angle < 360

\* the call has got past both position computations
PastAltaz == pc \in {"label", "loop", "axes", "scatter", "rlim", "ticks", "draw", "returned"}
                \/ (pc = "raised" /\ exc # "altaz")

\* C4 (as stated): observer.altaz is invoked exactly once in a call, over all
\* time samples, and altitude and azimuth both come from that invocation.
C4_AltazInvokedOnce ==
    PastAltaz => Len(altaz_log) = 1

\* C4 (amended): observer.altaz is invoked at most twice in a call, each time
\* over the whole time array; a call that gets past the position computation
\* has invoked it exactly twice, the altitude comes from the first invocation
\* and the azimuth from the second.
C4_AltazInvokedTwice ==
    /\ Len(altaz_log) <= 2
    /\ \A k \in 1..Len(altaz_log) : altaz_log[k].time = time
    /\ PastAltaz =>
        /\ Len(altaz_log) = 2
        /\ altitude.v = [i \in 1..NSamples |-> Radius(altaz_log[1].result.v[i].alt)]
        /\ azimuth.v = [i \in 1..NSamples |-> Radians(altaz_log[2].result.v[i].az)]

C4_Witness ==
    /\ pc = "returned"
    /\ NSamples = 2
    /\ Len(altaz_log) = 2

\* an invocation of observer.altaz of this call has raised
ObserverRaised == altaz_log # <<>> /\ Last(altaz_log).raised

\* C5: when the observer's position computation fails, the call ends with that
\* failure and nothing has been done to the axes: it is as it was when the call
\* began.
C5_NoDrawingOnObserverFailure ==
    ObserverRaised =>
        /\ pc = "raised"
        /\ exc = "altaz"
        /\ ops = <<>>
        /\ ax = ax0

C5_Witness ==
    /\ ObserverRaised
    /\ pc = "raised"
    /\ Len(altaz_log) = 2
    /\ Len(ax0.collections) > 0
    /\ ax0.theta_direction = -1

\* C6: a call with a scalar time and a call with the one-element array of the
\* same instant, from the same initial axes, end the same way: same plotted
\* points and axes, same warnings, same sequence of operations on the axes.
C6_ScalarSameAsSequence ==
    (phase = 2 /\ pc \in {"returned", "raised"}) =>
        first = [pc |-> pc, exc |-> exc, ax |-> ax, ops |-> ops, warned |-> warned]

C6_Witness ==
    /\ phase = 2
    /\ pc = "returned"
    /\ first.pc = "returned"
    /\ Len(Last(ax.collections).x) = 1

\* the dict the caller passed as style_kwargs (empty when None was passed)
Given == style_arg.d

\* C7: the style options passed to scatter hold every key of the caller with
\* the caller's value; 'marker' is 'o' only when the caller gave none, 'label'
\* is the target's name ('' without a name attribute) only when the caller
\* gave none; the caller's own mapping is not modified.
C7_StyleDefaults ==
    /\ heap["caller"] = Given
    /\ pc \in {"rlim", "ticks", "draw", "returned"} =>
        LET kw == Last(ax.collections).kwargs
        IN /\ DOMAIN kw = (DOMAIN Given) \cup {"marker", "label"}
           /\ \A k \in DOMAIN Given : kw[k] = Given[k]
           /\ "marker" \notin DOMAIN Given => kw["marker"] = "o"
           /\ "label" \notin DOMAIN Given =>
                  kw["label"] = (IF target.has_name THEN target.name ELSE "")

C7_Witness ==
    /\ pc = "returned"
    /\ ~style_arg.is_none
    /\ "label" \in DOMAIN Given
    /\ Last(ax.collections).kwargs = [label |-> "mine", marker |-> "o"]

\* C8: after any sequence of calls on the same axes, the angular direction of
\* the axes is that of the most recent call's north_to_east_ccw flag:
\* counter-clockwise (1) for True, clockwise (-1) for False.
C8_DirectionFollowsLastCall ==
    pc = "returned" => ax.theta_direction = (IF north_to_east_ccw THEN 1 ELSE -1)

\* C9: the angular tick labels handed to the axes are as many as the angular
\* tick positions handed with them (0 to 315 degrees in steps of 45).
C9_OneLabelPerTick ==
    Labelled =>
        /\ ax.thetagrids.angles = <<0, 45, 90, 135, 180, 225, 270, 315>>
        /\ Len(ax.thetagrids.labels) = Len(ax.thetagrids.angles)

\* strictly increasing index sequences of length n into 1..m
Increasing(n, m) ==
    {idx \in [1..n -> 1..m] : \A j, k \in 1..n : j < k => idx[j] < idx[k]}

\* C10: the angle list and the radius list passed to scatter have the same
\* length, and the i-th angle and the i-th radius come from the same time
\* sample, the kept samples in their original order.
C10_AnglesPairedWithRadii ==
    pc = "scatter" =>
        /\ Len(az_plot.arr) = Len(alt_plot)
        /\ \E idx \in Increasing(Len(alt_plot), NSamples) :
               \A k \in 1..Len(alt_plot) :
                   /\ az_plot.arr[k] = Radians(AzimuthAt(time.jd[idx[k]]))
                   /\ alt_plot[k] = Radius(AltOf(idx[k]))

====
